---- MODULE Spec2Model ----
(***************************************************************************)
(* Model of refactor_imports.py: one run of the script reads the file      *)
(* electron/src/main.ts, folds three regular-expression substitutions over *)
(* its text, writes the text back when it changed, and prints its report.  *)
(*                                                                         *)
(* Text is a sequence of tokens.  Each token is a piece of text that the   *)
(* three patterns can only take or leave whole: the literals of the        *)
(* patterns and of the replacement templates, one further word character   *)
(* ("a") and one further non-word character (";").  A token is either made *)
(* of word characters only (\w) or it begins and ends with a non-word      *)
(* character, and no concatenation of tokens contains a pattern literal    *)
(* across a token boundary, so matching on tokens is matching on the text. *)
(***************************************************************************)
EXTENDS Naturals, Sequences, FiniteSets

Quote       == "\""
IpcDir      == "./ipc/"
HandlersDir == "./handlers/"
Dot         == "."
StarAs      == " * as "
Semi        == ";"
Import      == "import"
Ipc         == "Ipc"
Handler     == "Handler"
Register    == "register"
HandlerExt  == "handler"
LetterA     == "a"

\* The tokens \w matches whole.
WordTokens == {Import, Ipc, Handler, Register, HandlerExt, LetterA}

\* The target of the run (line 27).
filepath == "electron/src/main.ts"

(***************************************************************************)
(* Bounds of the model.                                                    *)
(***************************************************************************)
\* Spec: a file is at most MaxWords lexemes long.
MaxWords == 4
\* SpecTwice: a file is at most MaxPhrases phrases long.
MaxPhrases == 4

(***************************************************************************)
(* The regular expressions of `replacements`, on token sequences.          *)
(* re.sub scans left to right, replaces each leftmost match and resumes    *)
(* after it, so that matches never overlap.                                *)
(***************************************************************************)

\* The least index j >= i with s[j] a double quote, or 0.
RECURSIVE NextQuote(_, _)
NextQuote(s, i) ==
    IF i > Len(s) THEN 0
    ELSE IF s[i] = Quote THEN i
    ELSE NextQuote(s, i + 1)

\* The last index of the run of word tokens that starts at p (p - 1 if s[p]
\* is no word token): how far a greedy \w+ reaches from p.
RECURSIVE WordRunEnd(_, _)
WordRunEnd(s, p) ==
    IF p > Len(s) \/ s[p] \notin WordTokens THEN p - 1
    ELSE WordRunEnd(s, p + 1)

\* The greatest index k in lo..hi with s[k] = Ipc, or 0: where \w+ stops
\* when it gives characters back until Ipc follows.
RECURSIVE LastIpc(_, _, _)
LastIpc(s, lo, hi) ==
    IF hi < lo THEN 0
    ELSE IF s[hi] = Ipc THEN hi
    ELSE LastIpc(s, lo, hi - 1)

\* Pattern 1, "\./ipc/([^"]+)" : the index of the closing quote of the match
\* that starts at i, or 0.  [^"]+ takes at least one token and stops at the
\* first quote.
Match1End(s, i) ==
    IF i + 3 <= Len(s) /\ s[i] = Quote /\ s[i + 1] = IpcDir /\ s[i + 2] # Quote
    THEN NextQuote(s, i + 3)
    ELSE 0

\* Pattern 2, import \* as (\w+)Ipc : the index of the Ipc that ends the
\* match starting at i, or 0.  (\w+) keeps at least one token.
Match2End(s, i) ==
    IF i + 3 <= Len(s) /\ s[i] = Import /\ s[i + 1] = StarAs
    THEN LastIpc(s, i + 3, WordRunEnd(s, i + 2))
    ELSE 0

\* Pattern 3, (\w+)Ipc\.register : the index of the `register` that ends the
\* match starting at p, or 0.  The dot is no word character, so Ipc is the
\* end of the word run from p, and (\w+) keeps at least one token before it.
Match3End(s, p) ==
    LET e == WordRunEnd(s, p) IN
    IF e > p /\ e + 2 <= Len(s) /\ s[e] = Ipc /\ s[e + 1] = Dot /\ s[e + 2] = Register
    THEN e + 2
    ELSE 0

\* Replacement 1 without the new file extension: "./handlers/\1"
Repl1NoExt(g) == <<Quote, HandlersDir>> \o g \o <<Quote>>

\* Replacement 1, "./handlers/\1.handler"
Repl1(g) == <<Quote, HandlersDir>> \o g \o <<Dot, HandlerExt, Quote>>

\* Replacement 2, import * as \1Handler
Repl2(g) == <<Import, StarAs>> \o g \o <<Handler>>

\* Replacement 3 with the alias left as it was: \1Ipc.register
Repl3SameAlias(g) == g \o <<Ipc, Dot, Register>>

\* Replacement 3, \1Handler.register
Repl3(g) == g \o <<Handler, Dot, Register>>

\* re.sub(pattern 1, replacement 1, s), from index i on.
RECURSIVE Sub1(_, _)
Sub1(s, i) ==
    IF i > Len(s) THEN <<>>
    ELSE LET e == Match1End(s, i) IN
         IF e > 0 THEN Repl1(SubSeq(s, i + 2, e - 1)) \o Sub1(s, e + 1)
         ELSE <<s[i]>> \o Sub1(s, i + 1)

\* re.sub(pattern 2, replacement 2, s), from index i on.
RECURSIVE Sub2(_, _)
Sub2(s, i) ==
    IF i > Len(s) THEN <<>>
    ELSE LET k == Match2End(s, i) IN
         IF k > 0 THEN Repl2(SubSeq(s, i + 2, k - 1)) \o Sub2(s, k + 1)
         ELSE <<s[i]>> \o Sub2(s, i + 1)

\* re.sub(pattern 3, replacement 3, s), from index p on.
RECURSIVE Sub3(_, _)
Sub3(s, p) ==
    IF p > Len(s) THEN <<>>
    ELSE LET e == Match3End(s, p) IN
         IF e > 0 THEN Repl3(SubSeq(s, p, e - 3)) \o Sub3(s, e + 1)
         ELSE <<s[p]>> \o Sub3(s, p + 1)

\* The number of rules in `replacements`.
NumRules == 3

\* re.sub(pattern, replacement, s) for the i-th pair of `replacements`.
ReSub(i, s) ==
    CASE i = 1 -> Sub1(s, 1)
      [] i = 2 -> Sub2(s, 1)
      [] i = 3 -> Sub3(s, 1)

\* Whether the i-th pattern matches somewhere in s.
Matches(i, s) ==
    \E p \in 1..Len(s) :
        CASE i = 1 -> Match1End(s, p) > 0
          [] i = 2 -> Match2End(s, p) > 0
          [] i = 3 -> Match3End(s, p) > 0

(***************************************************************************)
(* Failures of the file operations, as the exception classes Python raises *)
(* for them, and the classes each derives from.                            *)
(***************************************************************************)
Mro(k) ==
    CASE k = "FileNotFoundError"  -> {"FileNotFoundError", "OSError", "Exception", "BaseException"}
      [] k = "PermissionError"    -> {"PermissionError", "OSError", "Exception", "BaseException"}
      [] k = "OSError"            -> {"OSError", "Exception", "BaseException"}
      [] k = "UnicodeDecodeError" -> {"UnicodeDecodeError", "UnicodeError", "ValueError",
                                      "Exception", "BaseException"}

\* open(filepath, 'r') and f.read()
ReadFailures == {"FileNotFoundError", "PermissionError", "OSError", "UnicodeDecodeError"}
\* open(filepath, 'w')
OpenFailures == {"PermissionError", "OSError"}
\* f.write(new_content) and the close that flushes it
WriteFailures == {"OSError"}

\* The clause as `except OSError as e`.
CatchesOSError(k) == "OSError" \in Mro(k)

\* except Exception as e
Catches(k) == "Exception" \in Mro(k)

(***************************************************************************)
(* File contents the model starts from.                                    *)
(***************************************************************************)
\* All concatenations of at most n members of vocab.
RECURSIVE Files(_, _)
Files(vocab, n) ==
    IF n = 0 THEN {<<>>}
    ELSE LET F == Files(vocab, n - 1) IN F \cup {f \o w : f \in F, w \in vocab}

\* The pieces of the files of Spec.
Lexemes ==
    { <<Quote>>, <<Quote, IpcDir>>, <<Semi>>, <<LetterA>>, <<Ipc>>,
      <<Dot, Register>>, <<Import, StarAs>> }

\* Identifiers: aIpc, aIpca, registerIpc
Aliases == { <<LetterA, Ipc>>, <<LetterA, Ipc, LetterA>>, <<Register, Ipc>> }

\* The pieces of the files of SpecTwice: import-all clauses, .register calls
\* (on Ipc too), a separator, a quote and an opened "./ipc/a path.
Phrases ==
    { <<Import, StarAs>> \o x : x \in Aliases }
    \cup { x \o <<Dot, Register>> : x \in Aliases \cup {<<Ipc>>} }
    \cup { <<Semi>>, <<Quote>>, <<Quote, IpcDir, LetterA>> }

(***************************************************************************)
(* State.                                                                  *)
(***************************************************************************)
VARIABLES
    file,         \* the text of electron/src/main.ts on disk
    pc,           \* where the run is
    content,      \* process_file's local
    new_content,  \* process_file's local
    ri,           \* the index of the next pair of `replacements` in the for loop
    exc,          \* the exception being raised, or "none"
    out,          \* the lines printed by this run, in order
    run,          \* the number of this run of the script
    orig,         \* history: the file when this run started
    matched,      \* history: some pattern matched during this run's fold
    opened,       \* history: this run opened the file for writing
    failure       \* history: the failure this run met, or "none"

vars == <<file, pc, content, new_content, ri, exc, out, run, orig, matched, opened, failure>>

UpdatedLine == <<"Updated", filepath>>
ErrorLine(k) == <<"Error", filepath, k>>
DoneLine == <<"Backend import refactor successful.">>

StartOfRun(f, r) ==
    /\ file = f
    /\ pc = "read"
    /\ content = <<>>
    /\ new_content = <<>>
    /\ ri = 1
    /\ exc = "none"
    /\ out = <<>>
    /\ run = r
    /\ orig = f
    /\ matched = FALSE
    /\ opened = FALSE
    /\ failure = "none"

Init == \E f \in Files(Lexemes, MaxWords) : StartOfRun(f, 1)

InitTwice == \E f \in Files(Phrases, MaxPhrases) : StartOfRun(f, 1)

\* Line 20 without the comparison: the file is written whatever the fold did.
CompareAlwaysWrite ==
    /\ pc = "fold"
    /\ ri > NumRules
    /\ pc' = "open_w"
    /\ UNCHANGED <<file, content, new_content, ri, exc, out, run, orig, matched, opened, failure>>

\* Lines 21-22 with the text left in a buffer that never reaches the disk.
WriteFileLost ==
    /\ pc = "write"
    /\ pc' = "print_updated"
    /\ UNCHANGED <<file, content, new_content, ri, exc, out, run, orig, matched, opened, failure>>

\* Line 28 made to depend on the outcome of process_file.
PrintDoneOnSuccess ==
    /\ pc = "return"
    /\ failure = "none"
    /\ out' = Append(out, DoneLine)
    /\ pc' = "exit"
    /\ UNCHANGED <<file, content, new_content, ri, exc, run, orig, matched, opened, failure>>

\* Lines 13-16: the file is opened and read, new_content = content.
ReadFile ==
    /\ pc = "read"
    /\ content' = file
    /\ new_content' = file
    /\ ri' = 1
    /\ pc' = "fold"
    /\ UNCHANGED <<file, exc, out, run, orig, matched, opened, failure>>

\* Lines 13-14: open or read raises.
ReadFail ==
    /\ pc = "read"
    /\ \E k \in ReadFailures :
          /\ exc' = k
          /\ failure' = k
    /\ pc' = "except"
    /\ UNCHANGED <<file, content, new_content, ri, out, run, orig, matched, opened>>

\* Lines 17-18: one iteration of the for loop.
ApplyRule ==
    /\ pc = "fold"
    /\ ri <= NumRules
    /\ new_content' = ReSub(ri, new_content)
    /\ matched' = (matched \/ Matches(ri, new_content))
    /\ ri' = ri + 1
    /\ UNCHANGED <<file, pc, content, exc, out, run, orig, opened, failure>>

\* Line 20: the loop is over; write only if the text changed.
Compare ==
    /\ pc = "fold"
    /\ ri > NumRules
    /\ pc' = IF new_content # content THEN "open_w" ELSE "return"
    /\ UNCHANGED <<file, content, new_content, ri, exc, out, run, orig, matched, opened, failure>>

\* Line 21: open(filepath, 'w') truncates the file.
OpenWrite ==
    /\ pc = "open_w"
    /\ file' = <<>>
    /\ opened' = TRUE
    /\ pc' = "write"
    /\ UNCHANGED <<content, new_content, ri, exc, out, run, orig, matched, failure>>

\* Line 21: open(filepath, 'w') raises; the file is as it was.
OpenWriteFail ==
    /\ pc = "open_w"
    /\ \E k \in OpenFailures :
          /\ exc' = k
          /\ failure' = k
    /\ pc' = "except"
    /\ UNCHANGED <<file, content, new_content, ri, out, run, orig, matched, opened>>

\* Lines 21-22: f.write(new_content), and the with block closes the file.
WriteFile ==
    /\ pc = "write"
    /\ file' = new_content
    /\ pc' = "print_updated"
    /\ UNCHANGED <<content, new_content, ri, exc, out, run, orig, matched, opened, failure>>

\* Lines 21-22: the write or the flush at close raises; any part of the
\* text may have reached the disk.
WriteFail ==
    /\ pc = "write"
    /\ \E k \in WriteFailures, n \in 0..Len(new_content) :
          /\ file' = SubSeq(new_content, 1, n)
          /\ exc' = k
          /\ failure' = k
    /\ pc' = "except"
    /\ UNCHANGED <<content, new_content, ri, out, run, orig, matched, opened>>

\* Line 23
PrintUpdated ==
    /\ pc = "print_updated"
    /\ out' = Append(out, UpdatedLine)
    /\ pc' = "return"
    /\ UNCHANGED <<file, content, new_content, ri, exc, run, orig, matched, opened, failure>>

\* Lines 24-25: the except clause; an exception it does not catch leaves
\* process_file and ends the script.
Except ==
    /\ pc = "except"
    /\ IF Catches(exc)
       THEN /\ out' = Append(out, ErrorLine(exc))
            /\ pc' = "return"
       ELSE /\ out' = out
            /\ pc' = "crashed"
    /\ exc' = "none"
    /\ UNCHANGED <<file, content, new_content, ri, run, orig, matched, opened, failure>>

\* Line 28
PrintDone ==
    /\ pc = "return"
    /\ out' = Append(out, DoneLine)
    /\ pc' = "exit"
    /\ UNCHANGED <<file, content, new_content, ri, exc, run, orig, matched, opened, failure>>

\* The script is run again on the file the previous run left.
MaxRuns == 2

Rerun ==
    /\ pc = "exit"
    /\ run < MaxRuns
    /\ pc' = "read"
    /\ content' = <<>>
    /\ new_content' = <<>>
    /\ ri' = 1
    /\ exc' = "none"
    /\ out' = <<>>
    /\ run' = run + 1
    /\ orig' = file
    /\ matched' = FALSE
    /\ opened' = FALSE
    /\ failure' = "none"
    /\ UNCHANGED file

\* One run of the script, the file operations failing or not.
Step ==
    \/ ReadFile
    \/ ReadFail
    \/ ApplyRule
    \/ Compare
    \/ OpenWrite
    \/ OpenWriteFail
    \/ WriteFile
    \/ WriteFail
    \/ PrintUpdated
    \/ Except
    \/ PrintDone

Next == Step

Spec == Init /\ [][Next]_vars

\* The script is sequential and each of its steps ends.
FairSpec == Init /\ [][Next]_vars /\ WF_vars(Next)

\* Two runs in succession, no file operation failing.
NextTwice ==
    \/ ReadFile
    \/ ApplyRule
    \/ Compare
    \/ OpenWrite
    \/ WriteFile
    \/ PrintUpdated
    \/ PrintDone
    \/ Rerun

SpecTwice == InitTwice /\ [][NextTwice]_vars

(***************************************************************************)
(* Vocabulary of the properties.                                           *)
(***************************************************************************)
Range(s) == {s[i] : i \in DOMAIN s}

\* The three rules folded in order over s.
FoldAll(s) == Sub3(Sub2(Sub1(s, 1), 1), 1)

\* No pattern matches in s.
NoMatch(s) == \A i \in 1..NumRules : ~Matches(i, s)

\* The number of characters of a text.
RECURSIVE CharLen(_)
CharLen(s) == IF s = <<>> THEN 0 ELSE Len(Head(s)) + CharLen(Tail(s))

\* process_file has returned.
Returned == pc \in {"return", "exit"}

\* The lines process_file printed.
ReportLines == SelectSeq(out, LAMBDA l : l # DoneLine)

ErrorLines == {i \in DOMAIN out : out[i][1] = "Error"}

\* The order of the program's positions.
Rank(p) ==
    CASE p = "read" -> 1
      [] p = "fold" -> 2
      [] p = "open_w" -> 3
      [] p = "write" -> 4
      [] p = "print_updated" -> 5
      [] p = "except" -> 6
      [] p = "return" -> 7
      [] p = "exit" -> 8
      [] p = "crashed" -> 9

(***************************************************************************)
(* C1.  Idempotence: a second run in succession leaves the file as the     *)
(* first run left it, and does not write it.  (Refuted: SpecTwice reaches  *)
(* files that a second run changes again.)                                 *)
(***************************************************************************)
C1_Idempotent ==
    (run >= 2 /\ pc = "exit") => (file = orig /\ ~opened /\ NoMatch(orig))

(***************************************************************************)
(* C2.  Atomicity: once process_file has returned, also after a failure    *)
(* that it caught, the file holds its complete original text or the        *)
(* complete transformed text.  (Refuted: a write that fails after the      *)
(* file was opened for writing leaves it empty or partly written.)         *)
(***************************************************************************)
C2_Atomic ==
    Returned => (file = orig \/ file = FoldAll(orig))

(***************************************************************************)
(* C3.  No-op preservation: if no pattern matches the original text, the   *)
(* file is never opened for writing, it stays as it was, and no Updated    *)
(* line is printed.                                                        *)
(***************************************************************************)
C3_NoOpPreserved ==
    NoMatch(orig) => (~opened /\ file = orig /\ UpdatedLine \notin Range(out))

\* A run over a file that holds pieces of the patterns but no match has ended.
C3_Witness ==
    /\ pc = "exit"
    /\ failure = "none"
    /\ NoMatch(orig)
    /\ {Quote, IpcDir, Ipc} \subseteq Range(orig)

(***************************************************************************)
(* C4.  Error isolation: a failure of a file operation never leaves        *)
(* process_file as an exception, and once process_file has returned after  *)
(* a failure it has printed exactly one Error line, which names the path   *)
(* and the failure.                                                        *)
(***************************************************************************)
C4_ErrorIsolated ==
    /\ pc # "crashed"
    /\ (Returned /\ failure # "none") =>
          /\ Cardinality(ErrorLines) = 1
          /\ ErrorLine(failure) \in Range(out)
    /\ (Returned /\ failure = "none") => ErrorLines = {}

\* process_file has returned after an encoding error.
C4_Witness ==
    /\ pc = "return"
    /\ failure = "UnicodeDecodeError"
    /\ out = <<ErrorLine("UnicodeDecodeError")>>

(***************************************************************************)
(* C5.  Completion message: every run ends, and when it has ended the      *)
(* completion line has been printed exactly once, as the last line, after  *)
(* any Updated or Error line; it is printed at no earlier point.           *)
(***************************************************************************)
C5_CompletionLast ==
    /\ <>(pc = "exit")
    /\ [](pc = "exit" =>
             /\ Len(out) >= 1
             /\ out[Len(out)] = DoneLine
             /\ Cardinality({i \in DOMAIN out : out[i] = DoneLine}) = 1)
    /\ [](pc # "exit" => DoneLine \notin Range(out))

\* A run that caught a failure has ended with the Error line and the completion line.
C5_Witness ==
    /\ pc = "exit"
    /\ failure = "PermissionError"
    /\ opened = FALSE
    /\ matched
    /\ out = <<ErrorLine("PermissionError"), DoneLine>>

(***************************************************************************)
(* C8.  Outcomes: a run only moves forward through its positions, and      *)
(* when process_file has returned exactly one of three outcomes holds:     *)
(* the file was overwritten with the transformed text and one Updated line *)
(* printed; nothing was written and nothing printed; or one Error line     *)
(* was printed.  Updated and Error never appear together, and Updated is   *)
(* printed only when the file holds the transformed text.                  *)
(***************************************************************************)
WrittenAndReported ==
    /\ ReportLines = <<UpdatedLine>>
    /\ opened
    /\ file = new_content
    /\ new_content = FoldAll(orig)
    /\ new_content # orig

UnchangedAndSilent ==
    /\ ReportLines = <<>>
    /\ ~opened
    /\ file = orig

ErroredAndReported ==
    /\ failure # "none"
    /\ ReportLines = <<ErrorLine(failure)>>

C8_Outcome ==
    /\ Returned =>
          \/ WrittenAndReported /\ ~UnchangedAndSilent /\ ~ErroredAndReported
          \/ ~WrittenAndReported /\ UnchangedAndSilent /\ ~ErroredAndReported
          \/ ~WrittenAndReported /\ ~UnchangedAndSilent /\ ErroredAndReported
    /\ ~(UpdatedLine \in Range(out) /\ ErrorLines # {})
    /\ UpdatedLine \in Range(out) => (opened /\ file = new_content)

\* C8: every state has a single consistent outcome, and every step moves the
\* run forward (no retry, no resumption).
C8_Outcomes ==
    /\ []C8_Outcome
    /\ [][ /\ Rank(pc') >= Rank(pc)
           /\ pc' = pc => ri' > ri ]_vars

\* process_file has returned after it wrote the file and reported it.
C8_Witness ==
    /\ pc = "return"
    /\ out = <<UpdatedLine>>
    /\ file # orig

(***************************************************************************)
(* C9.  Change detection: every iteration of the fold changes the text     *)
(* exactly if its pattern matches, and then makes it longer; at every      *)
(* point some pattern has matched exactly if the text differs from the     *)
(* original, and the text is then longer than the original; a run that     *)
(* met no failure has overwritten the file and printed Updated exactly if  *)
(* a pattern matched.                                                      *)
(***************************************************************************)
C9_Detected ==
    /\ matched <=> (new_content # content)
    /\ matched => CharLen(new_content) > CharLen(content)
    /\ (Returned /\ failure = "none") =>
          /\ matched <=> UpdatedLine \in Range(out)
          /\ matched <=> (opened /\ file = new_content /\ file # orig)

Occ(s) ==
    {o \in (1..Len(s)) \X (1..Len(s)) :
        /\ o[1] + 3 <= o[2]
        /\ s[o[1]] = Quote
        /\ s[o[1] + 1] = IpcDir
        /\ s[o[2]] = Quote
        /\ \A k \in (o[1] + 2)..(o[2] - 1) : s[k] # Quote}

\* How many occurrences of O, one after the other, each opening with the
\* closing quote of the one before, lead up to o.
RECURSIVE ChainDepth(_, _)
ChainDepth(O, o) ==
    IF \E q \in O : q[2] = o[1]
    THEN 1 + ChainDepth(O, CHOOSE q \in O : q[2] = o[1])
    ELSE 0

\* The occurrences a left-to-right scan that resumes after each match finds:
\* all of them, but for every second one of a chain that shares its quotes.
Scanned(s) == {o \in Occ(s) : ChainDepth(Occ(s), o) % 2 = 0}

\* How far the replacements of the occurrences of O that close at or before
\* p move the token at p to the right: each adds two tokens.
Shift(O, p) == 2 * Cardinality({o \in O : o[2] <= p})

\* t is s with every occurrence of O replaced in its place by
\* "./handlers/<name>.handler", its own name reinserted, and nothing else
\* altered.
IsRewriteOf(s, t, O) ==
    /\ Len(t) = Len(s) + 2 * Cardinality(O)
    /\ \A o \in O :
          SubSeq(t, o[1] + Shift(O, o[1]), o[2] + Shift(O, o[2]))
             = <<Quote, HandlersDir>> \o SubSeq(s, o[1] + 2, o[2] - 1)
                  \o <<Dot, HandlerExt, Quote>>
    /\ \A p \in 1..Len(s) :
          (\A o \in O : p < o[1] \/ p > o[2]) => t[p + Shift(O, p)] = s[p]

\* t is s but for some Ipc that became Handler.
OnlyRenames(s, t) ==
    /\ Len(t) = Len(s)
    /\ \A p \in 1..Len(s) : t[p] = s[p] \/ (s[p] = Ipc /\ t[p] = Handler)

\* The for loop is over.
Folded == pc = "fold" /\ ri > NumRules

(***************************************************************************)
(* C6, as claimed.  Import-path rewrite: in the text one run produces,     *)
(* every occurrence of "./ipc/<name>" of the original has                  *)
(* "./handlers/<name>.handler" in its place, with its own name, and no     *)
(* text outside the occurrences is altered.  (Refuted.)                    *)
(***************************************************************************)
C6_EveryOccurrenceRewritten ==
    Folded => IsRewriteOf(content, new_content, Occ(content))

(***************************************************************************)
(* C6, amended.  Rule 1 replaces in place, with its own name, every        *)
(* occurrence of "./ipc/<name>" that its left-to-right scan finds, which   *)
(* is every occurrence but one that opens with the closing quote of a      *)
(* replaced occurrence, and rule 1 alters nothing else; rules 2 and 3 then *)
(* alter the text, the reinserted names included, only by turning Ipc      *)
(* into Handler.                                                           *)
(***************************************************************************)
C6_ScannedOccurrencesRewritten ==
    /\ []((pc = "fold" /\ ri = 2) => IsRewriteOf(content, new_content, Scanned(content)))
    /\ [][(pc = "fold" /\ ri \in {2, 3}) => OnlyRenames(new_content, new_content')]_vars

\* Rule 1 has replaced the first of two occurrences that share a quote, and
\* rule 3 is about to rename an alias inside the name of the second.
C6_Witness ==
    /\ pc = "fold"
    /\ ri = 3
    /\ Cardinality(Occ(content)) = 2
    /\ Cardinality(Scanned(content)) = 1
    /\ new_content # content
    /\ \E o \in Occ(new_content) : Match3End(new_content, o[1] + 2) > 0

(***************************************************************************)
(* Identifiers bound by import-all clauses and identifiers on which        *)
(* .register is called.  An identifier is a whole run of word tokens.      *)
(***************************************************************************)
IdentAt(s, p) == SubSeq(s, p, WordRunEnd(s, p))

\* Where the identifier of an import-all clause starts.
BindingsAt(s) ==
    {p \in 3..Len(s) : s[p - 2] = Import /\ s[p - 1] = StarAs /\ s[p] \in WordTokens}

\* Where an identifier starts that is followed by .register
CallsAt(s) ==
    {p \in 1..Len(s) :
        /\ s[p] \in WordTokens
        /\ p = 1 \/ s[p - 1] \notin WordTokens
        /\ LET e == WordRunEnd(s, p) IN
              /\ e + 2 <= Len(s)
              /\ s[e + 1] = Dot
              /\ s[e + 2] = Register
              /\ e + 3 > Len(s) \/ s[e + 3] \notin WordTokens}

Bound(s) == {IdentAt(s, p) : p \in BindingsAt(s)}
Called(s) == {IdentAt(s, p) : p \in CallsAt(s)}

\* <id>Ipc as <id>Handler
AsHandler(x) == SubSeq(x, 1, Len(x) - 1) \o <<Handler>>

(***************************************************************************)
(* C7.  Alias rewrite: if the original binds an identifier <id>Ipc in an   *)
(* import-all clause, the text one run produces binds <id>Handler, calls   *)
(* .register on <id>Ipc nowhere, and calls it on <id>Handler if the        *)
(* original called it on <id>Ipc.  (Refuted.)                              *)
(***************************************************************************)
C7_AliasRewritten ==
    Folded =>
       \A x \in Bound(content) :
          (Len(x) >= 2 /\ x[Len(x)] = Ipc) =>
             /\ AsHandler(x) \in Bound(new_content)
             /\ x \notin Called(new_content)
             /\ x \in Called(content) => AsHandler(x) \in Called(new_content)

(***************************************************************************)
(* C10.  Consistent renaming: for every import-all clause and every        *)
(* .register call of the original on the same identifier, the identifier   *)
(* the clause binds in the text one run produces is the identifier the     *)
(* call is made on there.  (Refuted.)                                      *)
(***************************************************************************)
C10_ConsistentRenaming ==
    Folded =>
       \A b \in BindingsAt(content), c \in CallsAt(content) :
          IdentAt(content, b) = IdentAt(content, c) =>
             IdentAt(new_content, b + Shift(Scanned(content), b))
                = IdentAt(new_content, c + Shift(Scanned(content), c))

====
